---- MODULE Spec2Model ----
(***************************************************************************)
(* Model of the two bibliography scripts of the repository:                *)
(*   bin/add_previews.py   (script 1: add preview thumbnails to papers.bib)*)
(*   bin/fetch_scholar.py  (script 2: regenerate papers.bib from a profile)*)
(* Text is modelled as sequences of one-character strings wherever the     *)
(* code transforms it character by character (slugify, int(), strip()).    *)
(***************************************************************************)
EXTENDS Integers, Sequences, FiniteSets, TLC

VARIABLES
    pc,           \* position of the running program
    bibFile,      \* _bibliography/papers.bib: [exists, text]
    bib0,         \* contents of papers.bib when the run started (history)
    backups,      \* contents of the .bak.<ts>.bib files written by backup_bib
    storage,      \* paths of the files on local storage under the working dir
    net,          \* network calls made so far, in order (history)
    lines,        \* script 1: raw_text.splitlines()
    end_idx,      \* script 1: index of the closing marker (0-based, as in the code)
    entries,      \* script 1: bib_db.entries
    args,         \* script 2: parsed command line
    profile,      \* script 2: what the profile service holds for args.user
    pubs,         \* script 2: result of fetch_publications
    bib_entries,  \* script 2: list of (year, bibtex, key)
    preview_map,  \* script 2: key -> preview path
    i,            \* index of the loop in progress (0-based, as in the code)
    arg,          \* input of the function under check (function specifications)
    ret           \* its result

vars == <<pc, bibFile, bib0, backups, storage, net, lines, end_idx, entries,
          args, profile, pubs, bib_entries, preview_map, i, arg, ret>>

\* A string is a sequence of one-character strings (or of longer tokens where
\* only whitespace matters). Python's None, where a string may stand:
None == <<"None">>

Min(a, b) == IF a < b THEN a ELSE b

(***************************************************************************)
(* Bounds of the model.                                                    *)
(***************************************************************************)
MaxTitleLen == 3        \* longest enumerated title (characters)
MaxPubs == 2            \* most publications a profile lists
MaxEntries == 2         \* most entries in the bibliography file of script 1
MaxSortLen == 4         \* longest list handed to the entry sorter alone
MaxTags == 2            \* most <meta> tags of a page handed to thumbnail discovery

(***************************************************************************)
(* Characters and strings.                                                 *)
(***************************************************************************)
UpperLetters == <<"A","B","C","D","E","F","G","H","I","J","K","L","M",
                  "N","O","P","Q","R","S","T","U","V","W","X","Y","Z">>
LowerLetters == <<"a","b","c","d","e","f","g","h","i","j","k","l","m",
                  "n","o","p","q","r","s","t","u","v","w","x","y","z">>
Digits == <<"0","1","2","3","4","5","6","7","8","9">>

Range(s) == {s[k] : k \in DOMAIN s}

Whitespace == {" ", "\t", "\n"}
Hyphens == {"-"}
IsSpace(c) == c \in Whitespace

\* str.lower(), one character
LowerChar(c) ==
    IF \E k \in DOMAIN UpperLetters : UpperLetters[k] = c
    THEN LowerLetters[CHOOSE k \in DOMAIN UpperLetters : UpperLetters[k] = c]
    ELSE c

Lower(s) == [k \in DOMAIN s |-> LowerChar(s[k])]

RECURSIVE LStrip(_)
LStrip(s) == IF s # <<>> /\ IsSpace(Head(s)) THEN LStrip(Tail(s)) ELSE s

RECURSIVE RStrip(_)
RStrip(s) ==
    IF s # <<>> /\ IsSpace(s[Len(s)]) THEN RStrip(SubSeq(s, 1, Len(s) - 1)) ELSE s

\* str.strip()
Strip(s) == RStrip(LStrip(s))

\* re.sub(r"<class>+", rep, s) for a one-character rep: every maximal run of
\* characters of the class becomes rep (the last character of a run is
\* replaced, the others are dropped)
SubRuns(s, class, rep) ==
    LET pieces == [k \in DOMAIN s |->
                     IF s[k] \in class
                     THEN IF k < Len(s) /\ s[k + 1] \in class THEN <<>> ELSE rep
                     ELSE <<s[k]>>]
        kept == SelectSeq(pieces, LAMBDA p : p # <<>>)
    IN  [k \in DOMAIN kept |-> kept[k][1]]

\* the characters re.sub(r"[^a-z0-9\-\s]", "", text) keeps
SlugKept(c) == c \in Range(LowerLetters) \cup Range(Digits) \cup Hyphens \cup Whitespace

SlugLimit == 80

slugify(text) ==
    LET t1 == Lower(Strip(text))
        t2 == SelectSeq(t1, SlugKept)
        t3 == SubRuns(t2, Whitespace, <<"-">>)
        t4 == SubRuns(t3, Hyphens, <<"-">>)
    IN  SubSeq(t4, 1, Min(Len(t4), SlugLimit))

\* Python truthiness of an optional string
Truthy(x) == x # None /\ x # <<>>

\* x or y
Or(x, y) == IF Truthy(x) THEN x ELSE y

(***************************************************************************)
(* Script 2, fetch_scholar.py: key assignment.                             *)
(* A citation-entry text block is a record: `key` is what the pattern      *)
(* @\w+\{([^,]+) captures in it (None when the pattern does not match),    *)
(* `src` the publication it was made from, `fallback` whether main built   *)
(* it itself, `preview` its preview field (None when it has none).         *)
(***************************************************************************)
Untitled == <<"u","n","t","i","t","l","e","d">>
UnknownYear == <<"0","0","0","0">>
TimeKey == <<"k","e","y","1","7">>       \* f"key{int(time.time())}"

BibText(src, key, fallback) ==
    [src |-> src, key |-> key, fallback |-> fallback, preview |-> None]

parse_bibtex_key(bibtex, fallback_title, fallback_year) ==
    IF bibtex.key # None
    THEN bibtex.key
    ELSE LET base == slugify(fallback_title)
         IN  IF Truthy(fallback_year) THEN base \o <<"-">> \o fallback_year ELSE base

\* title and year of a publication record, as main reads them
TitleOf(pub) == IF pub.title = None THEN Untitled ELSE pub.title
YearOf(pub) == IF Truthy(pub.pub_year) THEN pub.pub_year ELSE None

\* the minimal entry main builds when scholarly.bibtex raises
FallbackBibtex(pub) ==
    LET title == TitleOf(pub)
        year == YearOf(pub)
        key == Or(slugify(title \o <<"-">> \o Or(year, <<>>)), TimeKey)
    IN  BibText(pub.id, key, TRUE)

\* try: bibtex = scholarly.bibtex(pub) / except: the minimal entry.
\* scholarly.bibtex raises, or returns a text block whose key is genkey
\* (None: a block the key pattern does not match)
BibtexFor(pub, raises, genkey) ==
    IF raises THEN FallbackBibtex(pub) ELSE BibText(pub.id, genkey, FALSE)

KeyFor(pub, raises, genkey) ==
    parse_bibtex_key(BibtexFor(pub, raises, genkey), TitleOf(pub), YearOf(pub))

(***************************************************************************)
(* Script 2: the entry sorter.                                             *)
(***************************************************************************)
AllDigits(s) == s # <<>> /\ \A k \in DOMAIN s : s[k] \in Range(Digits)

DigitVal(c) == (CHOOSE k \in DOMAIN Digits : Digits[k] = c) - 1

RECURSIVE DigitsVal(_)
DigitsVal(s) ==
    IF s = <<>> THEN 0 ELSE 10 * DigitsVal(SubSeq(s, 1, Len(s) - 1)) + DigitVal(s[Len(s)])

\* int(y) for a string y: surrounding whitespace and one sign are accepted;
\* anything else raises ValueError ([ok |-> FALSE])
ParseInt(y) ==
    LET t == Strip(y)
        signed == t # <<>> /\ t[1] \in {"-", "+"}
        body == IF signed THEN Tail(t) ELSE t
    IN  IF AllDigits(body)
        THEN [ok |-> TRUE,
              val |-> IF signed /\ t[1] = "-" THEN 0 - DigitsVal(body) ELSE DigitsVal(body)]
        ELSE [ok |-> FALSE, val |-> 0]

sort_key_ascending(t) ==
    LET n == ParseInt(t[1]) IN IF n.ok THEN n.val ELSE 0

_sort_key(t) ==
    LET n == ParseInt(t[1]) IN IF n.ok THEN 0 - n.val ELSE 0

\* insert t after every element whose key is <= its own: list.sort is stable
RECURSIVE InsertByKey(_, _)
InsertByKey(sorted, t) ==
    IF sorted = <<>> THEN <<t>>
    ELSE IF _sort_key(Head(sorted)) <= _sort_key(t)
         THEN <<Head(sorted)>> \o InsertByKey(Tail(sorted), t)
         ELSE <<t>> \o sorted

RECURSIVE SortEntries(_)
SortEntries(es) ==
    IF es = <<>> THEN <<>>
    ELSE InsertByKey(SortEntries(SubSeq(es, 1, Len(es) - 1)), es[Len(es)])


(***************************************************************************)
(* Thumbnail discovery and image download (both scripts).                  *)
(* A response is [raised, status, tags]: requests.get raised, or returned  *)
(* `status` and a page whose <meta> tags are `tags`, in document order. A   *)
(* tag is [attr, val, content]: attr is "property" or "name", val its      *)
(* value, content the content attribute (None when the tag has none).      *)
(***************************************************************************)
HttpOk == 200

\* soup.find("meta", <attr>=<val>): the first such tag, 0 when there is none
FindMeta(tags, attr, val) ==
    LET hits == {k \in DOMAIN tags : tags[k].attr = attr /\ tags[k].val = val}
    IN  IF hits = {} THEN 0 ELSE CHOOSE k \in hits : \A m \in hits : k <= m

\* the two for-loops: the first kind whose tag has a truthy content, stripped
RECURSIVE FirstContent(_, _)
FirstContent(tags, kinds) ==
    IF kinds = <<>> THEN None
    ELSE LET k == FindMeta(tags, Head(kinds)[1], Head(kinds)[2])
         IN  IF k # 0 /\ Truthy(tags[k].content)
             THEN Strip(tags[k].content)
             ELSE FirstContent(tags, Tail(kinds))

PropertyKinds == << <<"property", "og:image">>, <<"property", "twitter:image">>,
                    <<"property", "og:image:url">> >>
NameKinds == << <<"name", "twitter:image">>, <<"name", "image">> >>

\* add_previews.py
discover_thumbnail_url_1(resp) ==
    IF resp.raised \/ resp.status # HttpOk THEN None
    ELSE FirstContent(resp.tags, PropertyKinds \o NameKinds)

\* fetch_scholar.py
discover_thumbnail_url_2(resp) ==
    IF resp.raised \/ resp.status # HttpOk THEN None
    ELSE FirstContent(resp.tags, PropertyKinds)

\* Image URLs the pages of the model refer to, each one token of a string.
UrlPng == "http://img/a.png"
UrlQueryGif == "http://img/b?f=c.gif"
UrlPlain == "http://img/c"

\* "<sub>" in thumb_url.lower(), for the URLs above
UrlContains(url, sub) ==
    \E k \in DOMAIN url :
        \/ sub = ".png" /\ url[k] = UrlPng
        \/ sub = ".gif" /\ url[k] = UrlQueryGif

\* os.path.splitext(thumb_url.split("?")[0])[1], for the URLs above
UrlPathExt(url) == IF url # <<>> /\ url[Len(url)] = UrlPng THEN ".png" ELSE ""

\* download_image(url, dest): what the transfer does, the files afterwards and
\* the value returned. "ok": status 200 and the body written; "bad_status": a
\* status other than 200; "error": requests.get or open raises; "truncated":
\* iter_content raises after open created the file
DownloadOutcomes == {"ok", "bad_status", "error", "truncated"}
download_always_true(outcome) == TRUE
download_image(outcome) == outcome = "ok"
FilesAfterDownload(files, dest, outcome) ==
    IF outcome \in {"ok", "truncated"} THEN files \cup {dest} ELSE files

ASSETS_DIR == <<"assets", "img", "pub_preview">>

NetCall(op, who, ok) == [op |-> op, who |-> who, ok |-> ok]

\* requests.get raised (timeout, connection error, ...)
RaisedResponse == [raised |-> TRUE, status |-> 0, tags |-> <<>>]

\* the responses a page fetch of the two main routines may get
PageResponses ==
    { RaisedResponse,
      [raised |-> FALSE, status |-> HttpOk,
       tags |-> << [attr |-> "property", val |-> "og:image",
                    content |-> <<" ", UrlPng, " ">>] >>],
      [raised |-> FALSE, status |-> HttpOk,
       tags |-> << [attr |-> "name", val |-> "image", content |-> <<UrlQueryGif>>] >>] }

(***************************************************************************)
(* Script 2, fetch_scholar.py: main.                                       *)
(***************************************************************************)
NoBib == [exists |-> FALSE, text |-> <<>>]
OldBib == [exists |-> TRUE, text |-> <<BibText(0, <<"o","l","d">>, FALSE)>>]

\* the state no routine of script 1 or of a function check is using
IdleScript1 == lines = <<>> /\ end_idx = 0 /\ entries = <<>>
IdleFunction == arg = <<>> /\ ret = <<>>
script1Vars == <<lines, end_idx, entries>>
functionVars == <<arg, ret>>
script2Locals == <<pubs, bib_entries, preview_map>>

MainTitles == {<<"a">>}
MainYears == {None, <<"2","0","2","1">>}
GenKeys == {None, <<"k">>}

Publications ==
    {[id |-> 0, title |-> t, pub_year |-> y] : t \in MainTitles, y \in MainYears}

\* the profile's publication lists: the k-th publication has id k
ProfileLists ==
    UNION {{[k \in 1..n |-> [f[k] EXCEPT !.id = k]] : f \in [1..n -> Publications]}
           : n \in 0..MaxPubs}

\* --max: not given, or an integer
MaxOptions == {[given |-> FALSE, n |-> 0]} \cup {[given |-> TRUE, n |-> n] : n \in {0, 1, 2}}

InitScholar ==
    /\ pc = "s_start"
    /\ bibFile = OldBib
    /\ bib0 = bibFile
    /\ backups = {}
    /\ storage = {}
    /\ net = <<>>
    /\ args \in [max : MaxOptions, thumbnails : BOOLEAN]
    /\ profile \in [found : {TRUE}, publications : ProfileLists]
                   \cup {[found |-> FALSE, publications |-> <<>>]}
    /\ pubs = <<>>
    /\ bib_entries = <<>>
    /\ preview_map = <<>>
    /\ i = 0
    /\ IdleScript1
    /\ IdleFunction

\* backup_bib(): the bibliography file and the backup files afterwards
backup_by_rename(file, bks) ==
    [bib |-> NoBib, backups |-> IF file.exists THEN bks \cup {file.text} ELSE bks]

backup_bib(file, bks) ==
    [bib |-> file, backups |-> IF file.exists THEN bks \cup {file.text} ELSE bks]

\* main, lines 113-130: ensure_dirs, the proxy set-up, backup_bib
Setup ==
    /\ pc = "s_start"
    /\ LET b == backup_bib(bibFile, backups)
       IN  bibFile' = b.bib /\ backups' = b.backups
    /\ pc' = "s_fetch_author"
    /\ UNCHANGED <<bib0, storage, net, args, profile, i>>
    /\ UNCHANGED <<script2Locals, script1Vars, functionVars>>

\* fetch_author raises: the search fails, or finds no author, or the fill
\* of the author fails; main does not catch it
FetchAuthorFail ==
    /\ pc = "s_fetch_author"
    /\ pc' = "s_aborted"
    /\ UNCHANGED <<bibFile, bib0, backups, storage, net, args, profile, i>>
    /\ UNCHANGED <<script2Locals, script1Vars, functionVars>>

FetchAuthorOk ==
    /\ pc = "s_fetch_author"
    /\ profile.found
    /\ pc' = "s_fetch_pubs"
    /\ i' = 0
    /\ UNCHANGED <<bibFile, bib0, backups, storage, net, args, profile>>
    /\ UNCHANGED <<script2Locals, script1Vars, functionVars>>

\* fetch_publications: `if max_pubs and i >= max_pubs: break`
MaxReached(max_pubs, k) == max_pubs.given /\ max_pubs.n # 0 /\ k >= max_pubs.n

\* one iteration of the loop of fetch_publications: scholarly.fill(pub)
\* returns the publication with its page URL (None when it has none)
FillPubOk ==
    /\ pc = "s_fetch_pubs"
    /\ i < Len(profile.publications)
    /\ ~MaxReached(args.max, i)
    /\ \E page_url \in {None, <<"page">>} :
        pubs' = Append(pubs, [id |-> profile.publications[i + 1].id,
                              title |-> profile.publications[i + 1].title,
                              pub_year |-> profile.publications[i + 1].pub_year,
                              page_url |-> page_url])
    /\ net' = Append(net, NetCall("fill", i + 1, TRUE))
    /\ i' = i + 1
    /\ UNCHANGED <<pc, bibFile, bib0, backups, storage, args, profile>>
    /\ UNCHANGED <<bib_entries, preview_map, script1Vars, functionVars>>

\* ... or raises, which the loop catches
FillPubFail ==
    /\ pc = "s_fetch_pubs"
    /\ i < Len(profile.publications)
    /\ ~MaxReached(args.max, i)
    /\ net' = Append(net, NetCall("fill", i + 1, FALSE))
    /\ i' = i + 1
    /\ UNCHANGED <<pc, bibFile, bib0, backups, storage, args, profile>>
    /\ UNCHANGED <<script2Locals, script1Vars, functionVars>>

\* the loop ends: the list is exhausted, or the break is taken
FetchPubsEnd ==
    /\ pc = "s_fetch_pubs"
    /\ i >= Len(profile.publications) \/ MaxReached(args.max, i)
    /\ pc' = "s_build"
    /\ i' = 0
    /\ UNCHANGED <<bibFile, bib0, backups, storage, net, args, profile>>
    /\ UNCHANGED <<script2Locals, script1Vars, functionVars>>

MapPut(m, k, v) == [x \in DOMAIN m \cup {k} |-> IF x = k THEN v ELSE m[x]]

\* lines 164-167: whether the iteration fetches the publication's page
Fetches2(pub) == args.thumbnails /\ Truthy(pub.page_url)

\* the thumbnail part of one iteration of `for pub in pubs` (lines 164-175):
\* resp is what the page fetch gets, outcome what the image transfer does
ThumbStep2(pub, key, resp, outcome) ==
    LET thumb_url == IF Truthy(pub.page_url) THEN discover_thumbnail_url_2(resp) ELSE None
        ext == IF UrlPathExt(thumb_url) = "" THEN <<".jpg">> ELSE <<UrlPathExt(thumb_url)>>
        name == key \o ext                       \* dest.name
        dest == ASSETS_DIR \o name
        ok == download_image(outcome)
        preview_rel == ASSETS_DIR \o name
    IN  IF ~Fetches2(pub)
        THEN [storage |-> storage, preview_map |-> preview_map, calls |-> <<>>]
        ELSE IF ~Truthy(thumb_url)
        THEN [storage |-> storage, preview_map |-> preview_map,
              calls |-> <<NetCall("discover", pub.id, FALSE)>>]
        ELSE [storage |-> FilesAfterDownload(storage, dest, outcome),
              preview_map |-> IF ok THEN MapPut(preview_map, key, preview_rel)
                              ELSE preview_map,
              calls |-> <<NetCall("discover", pub.id, TRUE),
                          NetCall("download", pub.id, ok)>>]

\* line 177: (year or "0000", bibtex, key)
EntryTuple(year, bibtex, key) == <<Or(year, UnknownYear), bibtex, key>>

\* one iteration of `for pub in pubs` (lines 140-177)
BuildEntry ==
    /\ pc = "s_build"
    /\ i < Len(pubs)
    /\ \E raises \in BOOLEAN :
       \E genkey \in IF raises THEN {None} ELSE GenKeys :
       \E resp \in IF Fetches2(pubs[i + 1]) THEN PageResponses ELSE {RaisedResponse} :
       \E outcome \in IF Fetches2(pubs[i + 1]) /\ Truthy(discover_thumbnail_url_2(resp))
                      THEN DownloadOutcomes ELSE {"none"} :
        LET pub == pubs[i + 1]
            year == YearOf(pub)
            bibtex == BibtexFor(pub, raises, genkey)
            key == KeyFor(pub, raises, genkey)
            t == ThumbStep2(pub, key, resp, outcome)
        IN  /\ storage' = t.storage
            /\ preview_map' = t.preview_map
            /\ net' = net \o t.calls
            /\ bib_entries' = Append(bib_entries, EntryTuple(year, bibtex, key))
    /\ i' = i + 1
    /\ UNCHANGED <<pc, bibFile, bib0, backups, args, profile, pubs>>
    /\ UNCHANGED <<script1Vars, functionVars>>

\* lines 189-203: the text blocks of the sorted entries, each with the preview
\* of its key when preview_map holds one
final_entries_one_per_key(es, pm) ==
    LET last(k) == \A m \in DOMAIN es : es[m][3] = es[k][3] => m <= k
        keep == SelectSeq([k \in DOMAIN es |-> <<es[k], last(k)>>], LAMBDA x : x[2])
    IN  [k \in DOMAIN keep |->
            IF keep[k][1][3] \in DOMAIN pm
            THEN [keep[k][1][2] EXCEPT !.preview = pm[keep[k][1][3]]]
            ELSE keep[k][1][2]]

final_entries(es, pm) ==
    [k \in DOMAIN es |->
        IF es[k][3] \in DOMAIN pm THEN [es[k][2] EXCEPT !.preview = pm[es[k][3]]]
        ELSE es[k][2]]

\* lines 179-206: sort, inject the previews, write the file
Finish ==
    /\ pc = "s_build"
    /\ i >= Len(pubs)
    /\ bib_entries' = SortEntries(bib_entries)
    /\ bibFile' = [exists |-> TRUE, text |-> final_entries(bib_entries', preview_map)]
    /\ pc' = "s_done"
    /\ UNCHANGED <<bib0, backups, storage, net, args, profile, pubs, preview_map, i>>
    /\ UNCHANGED <<script1Vars, functionVars>>

NextScholar ==
    \/ Setup
    \/ FetchAuthorFail
    \/ FetchAuthorOk
    \/ FillPubOk
    \/ FillPubFail
    \/ FetchPubsEnd
    \/ BuildEntry
    \/ Finish

SpecScholar == InitScholar /\ [][NextScholar]_vars

(***************************************************************************)
(* Script 1, add_previews.py: main.                                        *)
(* The bibliography file is a sequence of lines. A text line carries its   *)
(* text; the lines of one @type{key, ...} block are one "entry" line that  *)
(* carries the entry's ID and fields (None: the field is absent).          *)
(***************************************************************************)
TextLine(t) ==
    [kind |-> "text", text |-> t, ID |-> <<>>, url |-> None, doi |-> None, preview |-> None]

EntryLine(id, url, doi, preview) ==
    [kind |-> "entry", text |-> <<"@">>, ID |-> id, url |-> url, doi |-> doi,
     preview |-> preview]

Marker == <<"---">>
IsMarker(line) == Strip(line.text) = Marker          \* lines[i].strip() == "---"

\* lines 76-82: the index of the closing marker, 0-based as in the code; 1 when
\* no later line is a marker
ClosingIdx(ls) ==
    LET later == {k \in 1..(Len(ls) - 1) : IsMarker(ls[k + 1])}
    IN  IF later = {} THEN 1 ELSE CHOOSE k \in later : \A m \in later : k <= m

HasFront(ls) == ls # <<>> /\ IsMarker(ls[1])

\* lines[a:b] of Python, 0-based and clipped
Slice(ls, a, b) == SubSeq(ls, a + 1, Min(b, Len(ls)))

\* lines 83-89: the text handed to the parser and the entries it finds
bib_text(ls, e) == IF HasFront(ls) THEN Slice(ls, e + 1, Len(ls)) ELSE ls
ParsedEntries(text) == SelectSeq(text, LAMBDA l : l.kind = "entry")

\* lines 139-141: the front matter put back before the written entries
front_without_closing(ls, e) == IF HasFront(ls) THEN Slice(ls, 0, e) \o <<TextLine(<<>>)>> ELSE <<>>
front(ls, e) == IF HasFront(ls) THEN Slice(ls, 0, e + 1) \o <<TextLine(<<>>)>> ELSE <<>>

PageUrl == <<"http://page">>
Doi == <<"10.1000/x">>
OldPreview == <<"pub_preview", "old", ".jpg">>
OldThumb == ASSETS_DIR \o <<"old", ".jpg">>

\* the fields an entry of the input file may carry: no link, a url or a doi;
\* no preview, an empty one (preview = {}) or one written earlier
EntryFields ==
    {[url |-> l[1], doi |-> l[2], preview |-> p] :
        l \in {<<None, None>>, <<PageUrl, None>>, <<None, Doi>>},
        p \in {None, <<>>, OldPreview}}

EntryLists ==
    UNION {{[k \in 1..n |-> EntryLine(<<"k", Digits[k + 1]>>, f[k].url, f[k].doi, f[k].preview)]
            : f \in [1..n -> EntryFields]} : n \in 0..MaxEntries}

\* the leading lines of the input file: none, or an opening marker, a body and
\* a closing marker that is exact, padded with whitespace, or missing
FrontBlocks ==
    {<<>>} \cup
    {<<TextLine(Marker)>> \o body \o closing :
        body \in {<<TextLine(<<"foo: bar">>)>>},
        closing \in {<<TextLine(Marker)>>, <<TextLine(<<" ", "---", " ">>)>>, <<>>}}

InitPreviews ==
    /\ pc = "p_start"
    /\ \E f \in FrontBlocks, es \in EntryLists : bibFile = [exists |-> TRUE, text |-> f \o es]
    /\ bib0 = bibFile
    /\ backups = {}
    /\ storage \in {{}, {OldThumb}}
    /\ net = <<>>
    /\ lines = <<>>
    /\ end_idx = 0
    /\ entries = <<>>
    /\ i = 0
    /\ args = <<>>
    /\ profile = <<>>
    /\ pubs = <<>>
    /\ bib_entries = <<>>
    /\ preview_map = <<>>
    /\ IdleFunction

script2Vars == <<args, profile, pubs, bib_entries, preview_map>>

\* lines 68-91: ensure_dirs, read the file, set the front matter aside, parse
ReadBib ==
    /\ pc = "p_start"
    /\ lines' = bibFile.text
    /\ end_idx' = IF HasFront(lines') THEN ClosingIdx(lines') ELSE 0
    /\ entries' = ParsedEntries(bib_text(lines', end_idx'))
    /\ i' = 0
    /\ pc' = "p_loop"
    /\ UNCHANGED <<bibFile, bib0, backups, storage, net>>
    /\ UNCHANGED <<script2Vars, functionVars>>

\* lines 96-104: the entry is skipped without any network call
skips_only_without_link(entry) == ~Truthy(Or(entry.url, entry.doi))

Skipped(entry) == ~Truthy(Or(entry.url, entry.doi)) \/ Truthy(entry.preview)

\* lines 117-121
Ext1(thumb_url) ==
    IF UrlContains(thumb_url, ".png") THEN ".png"
    ELSE IF UrlContains(thumb_url, ".gif") THEN ".gif"
    ELSE ".jpg"

\* one iteration of `for entry in entries` (lines 94-130): resp is what the
\* page fetch gets, outcome what the image transfer does
ProcessEntry ==
    /\ pc = "p_loop"
    /\ i < Len(entries)
    /\ LET entry == entries[i + 1]
           key == entry.ID
       IN  IF Skipped(entry)
           THEN UNCHANGED <<entries, storage, net>>
           ELSE \E resp \in PageResponses :
                LET thumb_url == discover_thumbnail_url_1(resp)
                    name == key \o <<Ext1(thumb_url)>>          \* dest.name
                    dest == ASSETS_DIR \o name
                    preview_rel == <<"pub_preview">> \o name
                IN  IF ~Truthy(thumb_url)
                    THEN /\ net' = Append(net, NetCall("discover", i + 1, FALSE))
                         /\ UNCHANGED <<entries, storage>>
                    ELSE \E outcome \in DownloadOutcomes :
                         /\ net' = net \o <<NetCall("discover", i + 1, TRUE),
                                            NetCall("download", i + 1, download_image(outcome))>>
                         /\ storage' = FilesAfterDownload(storage, dest, outcome)
                         /\ entries' = IF download_image(outcome)
                                       THEN [entries EXCEPT ![i + 1].preview = preview_rel]
                                       ELSE entries
    /\ i' = i + 1
    /\ UNCHANGED <<pc, bibFile, bib0, backups, lines, end_idx>>
    /\ UNCHANGED <<script2Vars, functionVars>>

\* lines 132-146: serialize the entries, restore the front matter, write
WriteBack ==
    /\ pc = "p_loop"
    /\ i >= Len(entries)
    /\ bibFile' = [exists |-> TRUE, text |-> front(lines, end_idx) \o entries]
    /\ pc' = "p_done"
    /\ UNCHANGED <<bib0, backups, storage, net, lines, end_idx, entries, i>>
    /\ UNCHANGED <<script2Vars, functionVars>>

NextPreviews ==
    \/ ReadBib
    \/ ProcessEntry
    \/ WriteBack

SpecPreviews == InitPreviews /\ [][NextPreviews]_vars

(***************************************************************************)
(* Either script runs.                                                     *)
(***************************************************************************)
Init == InitPreviews \/ InitScholar

Next == NextPreviews \/ NextScholar

Spec == Init /\ [][Next]_vars

(***************************************************************************)
(* The pure functions on their own, over wider inputs than main gives them.*)
(***************************************************************************)
IdleMain ==
    /\ bibFile = NoBib /\ bib0 = NoBib /\ backups = {} /\ storage = {} /\ net = <<>>
    /\ IdleScript1
    /\ args = <<>> /\ profile = <<>> /\ pubs = <<>> /\ bib_entries = <<>>
    /\ preview_map = <<>> /\ i = 0

mainVars == <<bibFile, bib0, backups, storage, net, script1Vars, script2Vars, i>>

RECURSIVE SeqsUpTo(_, _)
SeqsUpTo(S, n) ==
    IF n = 0 THEN {<<>>}
    ELSE LET shorter == SeqsUpTo(S, n - 1)
         IN  shorter \cup {Append(q, x) : q \in {r \in shorter : Len(r) = n - 1}, x \in S}

\* --- the entry sorter ----------------------------------------------------
Unparsable == <<"n", ".", "d", ".">>
SortYears == {None, Unparsable, <<"2","0","1","9">>, <<"2","0","2","0">>,
              <<"2","0","2","3">>}

InitSort ==
    /\ pc = "f_call"
    /\ arg \in SeqsUpTo(SortYears, MaxSortLen)
    /\ ret = <<>>
    /\ IdleMain

\* lines 177-187 on the publications whose years are arg, in fetch order
SortCall ==
    /\ pc = "f_call"
    /\ ret' = SortEntries([k \in DOMAIN arg |->
                  EntryTuple(YearOf([pub_year |-> arg[k]]), BibText(k, None, FALSE), <<>>)])
    /\ pc' = "f_done"
    /\ UNCHANGED <<arg, mainVars>>

SpecSort == InitSort /\ [][SortCall]_vars

\* --- the key assigner ----------------------------------------------------
TitleChars == {"a", "S", "1", " ", "-", "!"}
ExampleTitle == <<"A"," ","S","t","u","d","y",":"," ","O","f"," "," ",
                  "T","H","I","N","G","S","!","!">>
LongTitle == [k \in 1..(SlugLimit + 2) |-> IF k = SlugLimit THEN " " ELSE "a"]
Titles == SeqsUpTo(TitleChars, MaxTitleLen) \cup {ExampleTitle, LongTitle}
KeyYears == {None, <<>>, <<"2","0","2","1">>}

InitKey ==
    /\ pc = "f_call"
    /\ arg \in [title : Titles, pub_year : KeyYears, raises : BOOLEAN]
    /\ ret = <<>>
    /\ IdleMain

\* lines 141-161 for a publication whose title and year are arg's, when
\* scholarly.bibtex raises (arg.raises) or yields no extractable key
AssignKey ==
    /\ pc = "f_call"
    /\ ret' = KeyFor([id |-> 1, title |-> arg.title, pub_year |-> arg.pub_year],
                     arg.raises, None)
    /\ pc' = "f_done"
    /\ UNCHANGED <<arg, mainVars>>

SpecKey == InitKey /\ [][AssignKey]_vars

\* --- thumbnail discovery -------------------------------------------------
MetaKinds == Range(PropertyKinds \o NameKinds)
MetaContents == {None, <<>>, <<" ", UrlPng, " ">>, <<UrlPlain>>}
MetaTags == {[attr |-> k[1], val |-> k[2], content |-> c] : k \in MetaKinds, c \in MetaContents}

Responses ==
    {RaisedResponse} \cup
    {[raised |-> FALSE, status |-> st, tags |-> t] :
        st \in {HttpOk, 404}, t \in SeqsUpTo(MetaTags, MaxTags)}

InitThumb ==
    /\ pc = "f_call"
    /\ arg \in Responses
    /\ ret = <<>>
    /\ IdleMain

Discover1 ==
    /\ pc = "f_call"
    /\ ret' = discover_thumbnail_url_1(arg)
    /\ pc' = "f_done1"
    /\ UNCHANGED <<arg, mainVars>>

Discover2 ==
    /\ pc = "f_call"
    /\ ret' = discover_thumbnail_url_2(arg)
    /\ pc' = "f_done2"
    /\ UNCHANGED <<arg, mainVars>>

NextThumb == Discover1 \/ Discover2

SpecThumb == InitThumb /\ [][NextThumb]_vars

(***************************************************************************)
(* Properties.                                                             *)
(***************************************************************************)
Done1 == pc = "p_done"
Done2 == pc = "s_done"

\* the entry line of the input file of script 1 that carries this ID
OrigOf(id) == CHOOSE l \in Range(bib0.text) : l.kind = "entry" /\ l.ID = id

CallsFor(op, who) == {k \in DOMAIN net : net[k].op = op /\ net[k].who = who}
NoCallFor(who) == \A k \in DOMAIN net : net[k].who # who

\* ---- C1 -----------------------------------------------------------------
\* the input file opens with a marker line and a later line is a marker
ClosedBlock(text) ==
    /\ text # <<>>
    /\ IsMarker(text[1])
    /\ \E k \in 2..Len(text) : IsMarker(text[k])

\* the line number of the closing marker: the first marker line after line 1
ClosingLine(text) ==
    CHOOSE k \in 2..Len(text) :
        IsMarker(text[k]) /\ \A m \in 2..(k - 1) : ~IsMarker(text[m])

EntryIDs(text) == [k \in DOMAIN SelectSeq(text, LAMBDA l : l.kind = "entry") |->
                      SelectSeq(text, LAMBDA l : l.kind = "entry")[k].ID]

\* C1: script 1, input file with a leading block from a marker line through a
\* closing marker line: the written file starts with exactly the lines of the
\* block, unchanged and in order, then a blank line, then the entries; the
\* entries are those after the block, none of the block's lines among them.
C1_FrontMatterPreserved ==
    (Done1 /\ ClosedBlock(bib0.text)) =>
        LET c == ClosingLine(bib0.text)
            out == bibFile.text
        IN  /\ Len(out) = c + 1 + Len(entries)
            /\ SubSeq(out, 1, c) = SubSeq(bib0.text, 1, c)
            /\ out[c + 1] = TextLine(<<>>)
            /\ SubSeq(out, c + 2, Len(out)) = entries
            /\ EntryIDs(entries) = EntryIDs(SubSeq(bib0.text, c + 1, Len(bib0.text)))

\* a run over "---", "foo: bar", "---" and an entry that got its preview
C1_Witness ==
    /\ Done1
    /\ ClosedBlock(bib0.text)
    /\ bib0.text[2] = TextLine(<<"foo: bar">>)
    /\ \E k \in DOMAIN entries :
        /\ OrigOf(entries[k].ID).preview = None
        /\ Truthy(entries[k].preview)

\* ---- C4 -----------------------------------------------------------------
NoLink(e) == ~Truthy(e.url) /\ ~Truthy(e.doi)

\* the k-th entry got no network call and is (written back) as it was read
Untouched(k) ==
    /\ NoCallFor(k)
    /\ entries[k] = OrigOf(entries[k].ID)
    /\ Done1 => \E m \in DOMAIN bibFile.text : bibFile.text[m] = OrigOf(entries[k].ID)

\* C4 as stated: script 1, an entry with neither url nor doi, or with a preview
\* field, gets no network call and is written back unchanged.
C4_AsStated ==
    \A k \in DOMAIN entries :
        (NoLink(OrigOf(entries[k].ID)) \/ OrigOf(entries[k].ID).preview # None)
            => Untouched(k)

\* C4, amended: script 1, an entry with neither url nor doi, or with a
\* non-empty preview field, gets no network call and is written back with all
\* its fields unchanged.
C4_SkippedEntriesUntouched ==
    \A k \in DOMAIN entries :
        (NoLink(OrigOf(entries[k].ID)) \/ Truthy(OrigOf(entries[k].ID).preview))
            => Untouched(k)

\* a finished run that kept a linked entry's old preview and fetched for another
C4_Witness ==
    /\ Done1
    /\ \E k \in DOMAIN entries :
        /\ entries[k].preview = OldPreview
        /\ ~NoLink(entries[k])
    /\ \E k \in DOMAIN entries : ~NoCallFor(k)

\* ---- C3 -----------------------------------------------------------------
SiteImageRoot == <<"assets", "img">>

\* the preview paths of the written file that this run added
AddedPreviews ==
    IF Done1
    THEN {entries[k].preview : k \in {m \in DOMAIN entries :
              entries[m].preview # OrigOf(entries[m].ID).preview}}
    ELSE {bibFile.text[k].preview : k \in {m \in DOMAIN bibFile.text :
              bibFile.text[m].preview # None}}

\* every preview path of the written file
WrittenPreviews ==
    IF Done1
    THEN {bibFile.text[k].preview : k \in {m \in DOMAIN bibFile.text :
              bibFile.text[m].kind = "entry" /\ Truthy(bibFile.text[m].preview)}}
    ELSE {bibFile.text[k].preview : k \in {m \in DOMAIN bibFile.text :
              bibFile.text[m].preview # None}}

DownloadFailed(who) == \E k \in CallsFor("download", who) : ~net[k].ok

\* C2: in both scripts an entry whose image download failed is written without
\* a preview added by this run, every entry is still processed and the file is
\* still written.
C2_FailedDownloadLeavesNoPreview ==
    /\ Done1 => \A k \in DOMAIN entries :
                    DownloadFailed(k) => entries[k].preview = OrigOf(entries[k].ID).preview
    /\ Done2 => \A k \in DOMAIN bibFile.text :
                    DownloadFailed(bibFile.text[k].src) => bibFile.text[k].preview = None
    /\ Done1 => i = Len(entries) /\ Len(bibFile.text) >= Len(entries)
    /\ Done2 => i = Len(pubs) /\ Len(bibFile.text) = Len(pubs)
    /\ pc \in {"p_loop", "s_build"} => ENABLED Next

C9_AbortLeavesBibliography ==
    pc = "s_aborted" =>
        /\ bibFile = bib0
        /\ pubs = <<>>
        /\ bib_entries = <<>>
        /\ net = <<>>

\* an aborted run that had a bibliography file, backed up before the abort
C9_Witness ==
    /\ pc = "s_aborted"
    /\ bib0.exists
    /\ backups # {}
    /\ ~profile.found

\* ---- C10 ----------------------------------------------------------------
Fills == SelectSeq(net, LAMBDA c : c.op = "fill")

\* C10: fetch_publications retrieves the publications one at a time in list
\* order, skips only those whose retrieval fails, returns the others in order
\* and retrieves no more than the maximum count when one is given.
C10_FetchPublications ==
    pc \in {"s_build", "s_done"} =>
        /\ \A k \in DOMAIN Fills : Fills[k].who = k
        /\ [k \in DOMAIN pubs |-> pubs[k].id] =
               [k \in DOMAIN SelectSeq(Fills, LAMBDA c : c.ok) |->
                   SelectSeq(Fills, LAMBDA c : c.ok)[k].who]
        /\ args.max.given => Len(Fills) <= args.max.n
        /\ Len(Fills) < Len(profile.publications) =>
               args.max.given /\ Len(Fills) = args.max.n

\* ---- C5 -----------------------------------------------------------------
\* a real year: text that parses as a positive integer
RealYear(y) == y # None /\ ParseInt(y).ok /\ ParseInt(y).val > 0
YearNum(y) == ParseInt(y).val

\* the fetch positions of the sorted entries, in written order
SortedIds == [k \in DOMAIN ret |-> ret[k][2].src]

\* C5: the sorter writes the entries by year, descending; entries with a
\* missing or non-numeric year come after all entries with a real year; entries
\* with equal or unknown years keep their fetch order.
C5_SortedByYearDescending ==
    pc = "f_done" =>
        /\ Len(ret) = Len(arg)
        /\ {SortedIds[k] : k \in DOMAIN ret} = DOMAIN arg
        /\ \A p, q \in DOMAIN ret :
            p < q =>
                LET a == arg[SortedIds[p]]
                    b == arg[SortedIds[q]]
                IN  /\ (RealYear(a) /\ RealYear(b)) => YearNum(a) >= YearNum(b)
                    /\ ~(~RealYear(a) /\ RealYear(b))
                    /\ ((~RealYear(a) /\ ~RealYear(b))
                           \/ (RealYear(a) /\ RealYear(b) /\ YearNum(a) = YearNum(b)))
                       => SortedIds[p] < SortedIds[q]

\* years [2020, None, 2023, 2019] written as [2023, 2020, 2019, None]
C5_Witness ==
    /\ pc = "f_done"
    /\ arg = << <<"2","0","2","0">>, None, <<"2","0","2","3">>, <<"2","0","1","9">> >>
    /\ SortedIds = <<3, 1, 4, 2>>

\* ---- C6 -----------------------------------------------------------------
\* the key C6 describes for a title and an optional year
DescribedKey(title, year) ==
    IF Truthy(year) THEN slugify(title) \o <<"-">> \o year ELSE slugify(title)

\* C6: a key synthesized from a title and an optional year is the slug of the
\* title (at most 80 characters) followed by -year when a year is available.
C6_SynthesizedKey ==
    pc = "f_done" => ret = DescribedKey(arg.title, arg.pub_year)

\* ---- C7 -----------------------------------------------------------------
\* the first tag of a kind, in document order
FirstOfKind(tags, kind) ==
    CHOOSE k \in DOMAIN tags :
        /\ <<tags[k].attr, tags[k].val>> = kind
        /\ \A m \in 1..(k - 1) : <<tags[m].attr, tags[m].val>> # kind

SearchOrder ==
    << <<"property", "og:image">>, <<"property", "twitter:image">>,
       <<"property", "og:image:url">>, <<"name", "twitter:image">>, <<"name", "image">> >>

\* the result C7 describes for a response
DescribedThumbnail(resp) ==
    LET tags == resp.tags
        has(n) == /\ \E k \in DOMAIN tags : <<tags[k].attr, tags[k].val>> = SearchOrder[n]
                  /\ Truthy(tags[FirstOfKind(tags, SearchOrder[n])].content)
        good == {n \in DOMAIN SearchOrder : has(n)}
        first == CHOOSE n \in good : \A m \in good : n <= m
    IN  IF resp.raised \/ resp.status # HttpOk \/ good = {} THEN None
        ELSE Strip(tags[FirstOfKind(tags, SearchOrder[first])].content)

\* C7: discover_thumbnail_url of both scripts returns the trimmed content of
\* the first of og:image, twitter:image, og:image:url (property), twitter:image,
\* image (name) that has a non-empty content; nothing on a failed fetch.
C7_ThumbnailSearchOrder ==
    pc \in {"f_done1", "f_done2"} => ret = DescribedThumbnail(arg)

====
